---- MODULE Spec2Model ----
(***************************************************************************)
(* Model of the binCraft snapshot decoder of adsbexchange-rs (src/main.rs): *)
(* parse_adsb (header, stride splitter, assembly) and build_aircraft (the   *)
(* per-record field decoder).  Buffers are sequences of bytes 0..255; Rust  *)
(* 0-based offsets are kept, so byte o of a slice b is b[o + 1].            *)
(*                                                                         *)
(* Option<T> is a sequence of length 0 (None) or 1 (Some).  An f32 that is  *)
(* the quotient of an integer lane by a constant is kept as the pair        *)
(* [num, den] of the operands of the division.        A slice or index out  *)
(* of range and an unwrap of None are Rust panics: the decode ends in the   *)
(* outcome "panic" with the site recorded.                                  *)
(***************************************************************************)
EXTENDS Integers, Sequences, FiniteSets, TLC

VARIABLES data, input, pc, panic, hdr, off, aircraft, results, order

vars == <<data, input, pc, panic, hdr, off, aircraft, results, order>>

-----------------------------------------------------------------------------
(* Integer and bit helpers                                                  *)

RECURSIVE Pow2(_)
Pow2(n) == IF n = 0 THEN 1 ELSE 2 * Pow2(n - 1)

Max(a, b) == IF a >= b THEN a ELSE b

\* a & b, one of the two non-negative (a negative operand is sign-extended,
\* as in two's complement: % and \div round towards minus infinity)
RECURSIVE BitAnd(_, _)
BitAnd(a, b) ==
    IF a = 0 \/ b = 0 THEN 0
    ELSE (a % 2) * (b % 2) + 2 * BitAnd(a \div 2, b \div 2)

\* a | b on non-negative bit patterns
BitOr(a, b) == a + b - BitAnd(a, b)

None == <<>>
Some(x) == <<x>>

\* &b[lo..hi] is in range
SliceOk(b, lo, hi) == lo <= hi /\ hi <= Len(b)

\* &b[lo..hi]
Slice(b, lo, hi) == SubSeq(b, lo + 1, hi)

read_u16(b, o) == b[o + 1] + 256 * b[o + 2]

read_i16(b, o) ==
    LET u == read_u16(b, o) IN IF u >= 32768 THEN u - 65536 ELSE u

\* a u32 is kept as its two 16-bit halves: the checker's integers are 32-bit signed
read_u32(b, o) == [lo |-> read_u16(b, o), hi |-> read_u16(b, o + 2)]

read_i32(b, o) == read_u16(b, o) + 65536 * read_i16(b, o + 2)

\* v != 0 and v >= c of a u32 v, for a constant 0 <= c < 2^31
u32_ne0(v) == v.lo # 0 \/ v.hi # 0

u32_ge(v, c) == v.hi > c \div 65536 \/ (v.hi = c \div 65536 /\ v.lo >= c % 65536)

\* `v as usize` of a u32 v below 2^31
as_usize(v) == v.hi * 65536 + v.lo

\* a u32 of 2^31 or more: as a usize it exceeds the length of every buffer here
u32_huge(v) == v.hi >= 32768

HexLower == "0123456789abcdef"
HexUpper == "0123456789ABCDEF"

\* format!("{:0<width>x}", v) over the given digit alphabet, v >= 0
RECURSIVE HexFmt(_, _, _)
HexFmt(v, width, digits) ==
    IF v < 16 /\ width <= 1 THEN SubSeq(digits, v + 1, v + 1)
    ELSE HexFmt(v \div 16, width - 1, digits) \o SubSeq(digits, (v % 16) + 1, (v % 16) + 1)

\* char::to_digit(radix) on a lowercase hex character: Some(d) or None
to_digit(c, radix) ==
    LET ds == {d \in 0..15 : SubSeq(HexLower, d + 1, d + 1) = c}
        d  == CHOOSE x \in ds : TRUE
    IN IF ds = {} THEN None ELSE IF d < radix THEN Some(d) ELSE None

\* format!("{}", n) of a u32 below 100
DecFmt(n) ==
    IF n < 10 THEN SubSeq(HexLower, n + 1, n + 1)
    ELSE SubSeq(HexLower, (n \div 10) + 1, (n \div 10) + 1)
         \o SubSeq(HexLower, (n % 10) + 1, (n % 10) + 1)

RECURSIVE BitLen(_)
BitLen(m) == IF m = 0 THEN 0 ELSE 1 + BitLen(m \div 2)

\* `m as f32` for 0 <= m < 2^31: the value sig * 2^exp, rounded to nearest,
\* ties to even, with a significand of 24 bits
RoundMag(m) ==
    IF m < 16777216 THEN [sig |-> m, exp |-> 0]
    ELSE LET e    == BitLen(m) - 24
             q    == Pow2(e)
             sig  == m \div q
             rem  == m % q
             half == q \div 2
             up   == rem > half \/ (rem = half /\ sig % 2 = 1)
         IN IF ~up THEN [sig |-> sig, exp |-> e]
            ELSE IF sig + 1 = 16777216 THEN [sig |-> 8388608, exp |-> e + 1]
            ELSE [sig |-> sig + 1, exp |-> e]

\* `n as f32` of an integer lane
as_f32(n) ==
    IF n >= 0 THEN RoundMag(n)
    ELSE IF n = (0 - 2147483647) - 1 THEN [sig |-> 0 - 8388608, exp |-> 8]
    ELSE [sig |-> 0 - RoundMag(0 - n).sig, exp |-> RoundMag(0 - n).exp]

\* `n as f32 / d`: the operands of the f32 division
f32_div(n, d) == [num |-> as_f32(n), den |-> d]

\* String::from_utf8_lossy: code points, U+FFFD for each maximal invalid part
RECURSIVE from_utf8_lossy(_)
from_utf8_lossy(b) ==
    IF b = <<>> THEN <<>>
    ELSE
      LET n  == Len(b)
          b1 == b[1]
          in(i, lo, hi) == i <= n /\ b[i] >= lo /\ b[i] <= hi
          rest(k) == from_utf8_lossy(SubSeq(b, k + 1, n))
          bad(k)  == <<65533>> \o rest(k)
      IN
      IF b1 < 128 THEN <<b1>> \o rest(1)
      ELSE IF b1 >= 194 /\ b1 <= 223 THEN
        IF in(2, 128, 191)
        THEN <<(b1 - 192) * 64 + (b[2] - 128)>> \o rest(2)
        ELSE bad(1)
      ELSE IF b1 >= 224 /\ b1 <= 239 THEN
        LET lo2 == IF b1 = 224 THEN 160 ELSE 128
            hi2 == IF b1 = 237 THEN 159 ELSE 191
        IN IF ~in(2, lo2, hi2) THEN bad(1)
           ELSE IF ~in(3, 128, 191) THEN bad(2)
           ELSE <<(b1 - 224) * 4096 + (b[2] - 128) * 64 + (b[3] - 128)>> \o rest(3)
      ELSE IF b1 >= 240 /\ b1 <= 244 THEN
        LET lo2 == IF b1 = 240 THEN 144 ELSE 128
            hi2 == IF b1 = 244 THEN 143 ELSE 191
        IN IF ~in(2, lo2, hi2) THEN bad(1)
           ELSE IF ~in(3, 128, 191) THEN bad(2)
           ELSE IF ~in(4, 128, 191) THEN bad(3)
           ELSE <<(b1 - 240) * 262144 + (b[2] - 128) * 4096
                    + (b[3] - 128) * 64 + (b[4] - 128)>> \o rest(4)
      ELSE bad(1)

\* str::trim_end_matches(char::from(0))
RECURSIVE trim_end_matches0(_)
trim_end_matches0(s) ==
    IF s # <<>> /\ s[Len(s)] = 0
    THEN trim_end_matches0(SubSeq(s, 1, Len(s) - 1))
    ELSE s

-----------------------------------------------------------------------------
(* build_aircraft: the per-record decoder                                   *)

\* Aircraft::default()
DefaultAircraft ==
    [hex |-> "", seen_pos |-> None, seen |-> None, lon |-> None, lat |-> None,
     baro_rate |-> None, geom_rate |-> None, alt_baro |-> None,
     alt_baro_label |-> None, alt_geom |-> None, nav_altitude_mcp |-> None,
     nav_altitude_fms |-> None, nav_qnh |-> None, nav_heading |-> None,
     squawk |-> None, gs |-> None, mach |-> None, roll |-> None,
     track |-> None, track_rate |-> None, mag_heading |-> None,
     true_heading |-> None, wd |-> None, ws |-> None, oat |-> None,
     tat |-> None, tas |-> None, ias |-> None, rc |-> 0, messages |-> 0,
     message_rate |-> 0, category |-> None, nic |-> 0, nav_modes |-> <<>>,
     emergency |-> None, signal_type |-> None, airground |-> 0,
     nav_altitude_src |-> None, sil_type |-> 0, adsb_version |-> 0,
     adsr_version |-> 0, tisb_version |-> 0, nac_p |-> None, nac_v |-> None,
     sil |-> None, gva |-> None, sda |-> None, nic_a |-> None, nic_c |-> None,
     flight |-> None, db_flags |-> 0, tail |-> <<>>, registration |-> <<>>,
     receiver_count |-> 0, rssi |-> [byte |-> 0], extra_flags |-> 0,
     nogps |-> 0, nic_baro |-> None, alert1 |-> None, spi |-> None,
     r_id |-> None]

\* lane i of the vectors u16, s16 and s32 filled by the two loops
u16(d, i) == read_u16(d, 2 * i)
s16(d, i) == read_i16(d, 2 * i)
s32(d, i) == read_i32(d, 4 * i)

\* the slices &data[i*4..i*4+4] and &data[i*2..i*2+2] of the two loops are in range
lanes_in_range(d, stride) ==
    /\ 4 * (stride \div 4) <= Len(d)
    /\ 2 * (stride \div 2) <= Len(d)

\* the hex identity, with "~" when bit 24 of lane 0 is set
hex_id(s32_0) ==
    IF BitAnd(s32_0, 16777216) # 0
    THEN "~" \o HexFmt(BitAnd(16777215, s32_0), 6, HexLower)
    ELSE HexFmt(BitAnd(16777215, s32_0), 6, HexLower)

\* s.chars().nth(0).unwrap().to_digit(10): None makes the following unwrap panic
squawk_first_digit(u16_16) ==
    to_digit(SubSeq(HexFmt(u16_16, 4, HexLower), 1, 1), 10)

\* the first digit reinterpreted as hex and printed, then the other three
squawk_spliced(s) ==
    DecFmt(to_digit(SubSeq(s, 1, 1), 16)[1])
    \o SubSeq(s, 2, 2) \o SubSeq(s, 3, 3) \o SubSeq(s, 4, 4)

\* the squawk string, when the first unwrap succeeds
squawk_string(u16_16) ==
    IF squawk_first_digit(u16_16)[1] > 9
    THEN squawk_spliced(HexFmt(u16_16, 4, HexLower))
    ELSE HexFmt(u16_16, 4, HexLower)

\* the scaled scalar fields read from the lane vectors
decode_lanes(a, d, use_message_rate) ==
    [a EXCEPT
       !.hex = hex_id(s32(d, 0)),
       !.seen_pos = Some(f32_div(u16(d, 2), 10)),
       !.seen = Some(f32_div(u16(d, 3), 10)),
       !.lon = Some(f32_div(s32(d, 2), 1000000)),
       !.lat = Some(f32_div(s32(d, 3), 1000000)),
       !.baro_rate = Some(8 * s16(d, 8)),
       !.geom_rate = Some(8 * s16(d, 9)),
       !.alt_baro = Some(25 * s16(d, 10)),
       !.alt_geom = Some(25 * s16(d, 11)),
       !.nav_altitude_mcp = Some(4 * u16(d, 12)),
       !.nav_altitude_fms = Some(4 * u16(d, 13)),
       !.nav_qnh = Some(f32_div(s16(d, 14), 10)),
       !.nav_heading = Some(f32_div(s16(d, 15), 90)),
       !.squawk = Some(squawk_string(u16(d, 16))),
       !.gs = Some(f32_div(s16(d, 17), 10)),
       !.mach = Some(f32_div(s16(d, 18), 1000)),
       !.roll = Some(f32_div(s16(d, 19), 100)),
       !.track = Some(f32_div(s16(d, 20), 90)),
       !.track_rate = Some(f32_div(s16(d, 21), 100)),
       !.mag_heading = Some(f32_div(s16(d, 22), 90)),
       !.true_heading = Some(f32_div(s16(d, 23), 90)),
       !.wd = Some(s16(d, 24)),
       !.ws = Some(s16(d, 25)),
       !.oat = Some(s16(d, 26)),
       !.tat = Some(s16(d, 27)),
       !.tas = Some(u16(d, 28)),
       !.ias = Some(u16(d, 29)),
       !.rc = u16(d, 30),
       !.message_rate = IF use_message_rate THEN u16(d, 31) \div 10 ELSE @,
       !.messages = IF use_message_rate THEN @ ELSE u16(d, 31)]

\* the byte-packed fields, the text fields and the receiver metadata
decode_bytes(a, d) ==
    [a EXCEPT
       !.category = IF d[65] # 0 THEN Some(HexFmt(d[65], 2, HexUpper)) ELSE None,
       !.nic = d[66],
       !.nav_modes = <<>>,
       !.emergency = Some(BitAnd(15, d[68])),
       !.airground = BitAnd(15, d[69]),
       !.nav_altitude_src = Some(BitAnd(240, d[69]) \div 16),
       !.sil_type = BitAnd(15, d[70]),
       !.adsb_version = BitAnd(240, d[70]) \div 16,
       !.adsr_version = BitAnd(15, d[71]),
       !.tisb_version = BitAnd(240, d[71]) \div 16,
       !.nac_p = Some(BitAnd(15, d[72])),
       !.nac_v = Some(BitAnd(240, d[72]) \div 16),
       !.sil = Some(BitAnd(3, d[73])),
       !.gva = Some(BitAnd(12, d[73]) \div 4),
       !.sda = Some(BitAnd(48, d[73]) \div 16),
       !.nic_a = Some(BitAnd(64, d[73]) \div 64),
       !.nic_c = Some(BitAnd(128, d[73]) \div 128),
       !.flight = Some(trim_end_matches0(from_utf8_lossy(Slice(d, 78, 86)))),
       !.db_flags = u16(d, 43),
       !.tail = trim_end_matches0(from_utf8_lossy(Slice(d, 88, 92))),
       !.registration = trim_end_matches0(from_utf8_lossy(Slice(d, 92, 104))),
       !.receiver_count = d[105],
       !.rssi = [byte |-> d[106]],
       !.extra_flags = d[107],
       !.nogps = BitAnd(1, d[107])]


\* the NoGPS sentinel: the private copy of the record with byte 73 corrected
sentinel_fires(nogps, s32_3) == nogps # 0 /\ s32_3 = 2147483647

sentinel_position_only(d, nogps, s32_3) ==
    IF sentinel_fires(nogps, s32_3) THEN [d EXCEPT ![74] = BitOr(@, 64)] ELSE d

sentinel(d, nogps, s32_3) ==
    IF sentinel_fires(nogps, s32_3)
    THEN [d EXCEPT ![74] = BitOr(BitOr(@, 64), 16)]
    ELSE d

\* data.to_vec(): what the caller's slice holds once the writes to the
\* private copy `local` are done
caller_view_shared(orig, local) == local

caller_view(orig, local) == orig

\* the three flag values taken from byte 73
flags73_as_validity(a, d) ==
    [a EXCEPT !.nic_baro = IF BitAnd(1, d[74]) = 0 THEN None ELSE Some(1),
              !.alert1   = IF BitAnd(2, d[74]) = 0 THEN None ELSE Some(2),
              !.spi      = IF BitAnd(4, d[74]) = 0 THEN None ELSE Some(4)]

flags73(a, d) ==
    [a EXCEPT !.nic_baro = Some(BitAnd(1, d[74])),
              !.alert1   = Some(BitAnd(2, d[74])),
              !.spi      = Some(BitAnd(4, d[74]))]

\* `if m & data[i] == 0 { field = None }`
keep(m, b, v) == IF BitAnd(m, b) = 0 THEN None ELSE v

mask73(a, d) ==
    [a EXCEPT !.flight   = keep(8, d[74], @),
              !.alt_baro = keep(16, d[74], @),
              !.alt_geom = keep(32, d[74], @),
              !.lat      = keep(64, d[74], @),
              !.lon      = keep(64, d[74], @),
              !.seen_pos = keep(64, d[74], @),
              !.gs       = keep(128, d[74], @)]

mask74_swapped(a, d) ==
    [a EXCEPT !.ias          = keep(1, d[75], @),
              !.tas          = keep(2, d[75], @),
              !.mach         = keep(4, d[75], @),
              !.track        = keep(8, d[75], @),
              !.track_rate   = keep(32, d[75], @),
              !.roll         = keep(16, d[75], @),
              !.mag_heading  = keep(64, d[75], @),
              !.true_heading = keep(128, d[75], @)]

mask74(a, d) ==
    [a EXCEPT !.ias          = keep(1, d[75], @),
              !.tas          = keep(2, d[75], @),
              !.mach         = keep(4, d[75], @),
              !.track        = keep(8, d[75], @),
              !.track_rate   = keep(16, d[75], @),
              !.roll         = keep(32, d[75], @),
              !.mag_heading  = keep(64, d[75], @),
              !.true_heading = keep(128, d[75], @)]

mask75(a, d) ==
    [a EXCEPT !.baro_rate = keep(1, d[76], @),
              !.geom_rate = keep(2, d[76], @),
              !.nic_a     = keep(4, d[76], @),
              !.nic_c     = keep(8, d[76], @),
              !.nic_baro  = keep(16, d[76], @),
              !.nac_p     = keep(32, d[76], @),
              !.nac_v     = keep(64, d[76], @),
              !.sil       = keep(128, d[76], @)]

mask76(a, d) ==
    [a EXCEPT !.gva              = keep(1, d[77], @),
              !.sda              = keep(2, d[77], @),
              !.squawk           = keep(4, d[77], @),
              !.emergency        = keep(8, d[77], @),
              !.spi              = keep(16, d[77], @),
              !.nav_qnh          = keep(32, d[77], @),
              !.nav_altitude_mcp = keep(64, d[77], @),
              !.nav_altitude_fms = keep(128, d[77], @)]

mask77(a, d) ==
    [a EXCEPT !.nav_altitude_src = keep(1, d[78], @),
              !.nav_heading      = keep(2, d[78], @),
              !.nav_modes        = IF BitAnd(4, d[78]) = 0 THEN <<>> ELSE @,
              !.alert1           = keep(8, d[78], @),
              !.ws               = keep(16, d[78], @),
              !.wd               = keep(16, d[78], @),
              !.oat              = keep(32, d[78], @),
              !.tat              = keep(32, d[78], @)]

\* the "ground" label of the altitude
ground_label_if_alt(a) ==
    IF a.airground = 1 /\ a.alt_baro # None
    THEN [a EXCEPT !.alt_baro_label = Some("ground")]
    ELSE a

ground_label(a) ==
    IF a.airground = 1 THEN [a EXCEPT !.alt_baro_label = Some("ground")] ELSE a

\* the named capabilities of the raw nav-mode byte
nav_mode_names(nav_modes) ==
    (IF BitAnd(1, nav_modes) # 0 THEN <<"autopilot">> ELSE <<>>)
    \o (IF BitAnd(2, nav_modes) # 0 THEN <<"vnav">> ELSE <<>>)
    \o (IF BitAnd(4, nav_modes) # 0 THEN <<"alt_hold">> ELSE <<>>)
    \o (IF BitAnd(8, nav_modes) # 0 THEN <<"approach">> ELSE <<>>)
    \o (IF BitAnd(16, nav_modes) # 0 THEN <<"lnav">> ELSE <<>>)
    \o (IF BitAnd(32, nav_modes) # 0 THEN <<"tcas">> ELSE <<>>)

nav_modes_list(a, d, nav_modes) ==
    IF BitAnd(4, d[78]) # 0
    THEN [a EXCEPT !.nav_modes = nav_mode_names(nav_modes)]
    ELSE a

SignalTypeNames ==
    <<"AdsbIcao", "AdsbIcaoNt", "AdsrIcao", "TisbIcao", "Adsc", "Mlat", "Other",
      "ModeS", "AdsbOther", "AdsrOther", "TisbTrackfile", "TisbOther", "ModeAc">>

signal_type_of(code) ==
    IF code <= 12 THEN SignalTypeNames[code + 1] ELSE "Unknown"

\* lines 278-369 on the private copy `local` of the record
mask_and_label(a, local) ==
    [nav_modes_list(
         ground_label(
             mask77(mask76(mask75(mask74(mask73(flags73(a, local),
                 local), local), local), local), local)),
         local, local[67])
     EXCEPT !.signal_type = Some(signal_type_of(BitAnd(240, local[68]) \div 16))]

\* the outcomes of a call: a panic, or the Aircraft; `input` is the caller's
\* slice after the call
failed(d, why) == [panic |-> why, aircraft |-> DefaultAircraft, input |-> d]

decoded(d, local, a) ==
    [panic |-> "", aircraft |-> mask_and_label(a, local), input |-> caller_view(d, local)]

\* build_aircraft(data, stride, use_message_rate)
build_aircraft(d, stride, use_message_rate) ==
    IF ~lanes_in_range(d, stride) \/ stride \div 4 <= 3 \/ stride \div 2 <= 16
    THEN failed(d, "build_aircraft: index out of range")
    ELSE IF squawk_first_digit(u16(d, 16)) = None
    THEN failed(d, "build_aircraft: unwrap on None")
    ELSE IF stride \div 2 <= 43 \/ Len(d) <= 106
    THEN failed(d, "build_aircraft: index out of range")
    ELSE decoded(d, sentinel(d, BitAnd(1, d[107]), s32(d, 3)),
                 decode_bytes(decode_lanes(DefaultAircraft, d, use_message_rate), d))

-----------------------------------------------------------------------------
(* parse_adsb: header, stride splitter, assembly                            *)

\* message-rate mode of a snapshot
use_message_rate_strict(globe_index, bin_craft_version) ==
    u32_ne0(globe_index) /\ u32_ge(bin_craft_version, 20220917)

use_message_rate(globe_index, bin_craft_version) ==
    u32_ne0(globe_index) /\ u32_ge(bin_craft_version, 20220916)

\* the header locals, from the slices u32 = &data[0..44], limits =
\* &data[20..28] and s32 = &data[32..32 + stride]
header_fields(u32_, limits, s32_) ==
    [now |-> [low_ms |-> read_u32(u32_, 0), high |-> read_u32(u32_, 4)],
     stride |-> read_u32(u32_, 8),
     global_ac_count_withpos |-> read_u32(u32_, 12),
     globe_index |-> read_u32(u32_, 16),
     south |-> read_i16(limits, 0),
     west |-> read_i16(limits, 2),
     north |-> read_i16(limits, 4),
     east |-> read_i16(limits, 6),
     messages |-> read_u32(u32_, 28),
     receiver_lat |-> [num |-> read_i32(s32_, 32), den |-> 1000000],
     receiver_lon |-> [num |-> read_i32(s32_, 36), den |-> 1000000],
     bin_craft_version |-> read_u32(u32_, 40)]

header_of(b) ==
    header_fields(Slice(b, 0, 44), Slice(b, 20, 28),
                  Slice(b, 32, 32 + as_usize(read_u32(b, 8))))

\* every slice of the header block is in range
header_in_range(b) ==
    /\ SliceOk(b, 0, 44)
    /\ ~u32_huge(read_u32(b, 8))
    /\ SliceOk(b, 32, 32 + as_usize(read_u32(b, 8)))
    /\ as_usize(read_u32(b, 8)) >= 40

\* the offsets the record loop visits: (stride..data.len()).step_by(stride)
loop_offsets(b, stride) ==
    {o \in stride..(Len(b) - 1) : (o - stride) % stride = 0}

\* the buffer with the bytes at [o, o + len) replaced by chunk
splice(b, o, chunk) ==
    [i \in 1..Len(b) |->
        IF i > o /\ i <= o + Len(chunk) THEN chunk[i - o] ELSE b[i]]

Stride == as_usize(hdr[1].stride)

ModeFlag == use_message_rate(hdr[1].globe_index, hdr[1].bin_craft_version)

\* lines 375-393: the header block
ReadHeader ==
    /\ pc = "start"
    /\ IF header_in_range(data)
       THEN /\ hdr' = Some(header_of(data))
            /\ off' = as_usize(read_u32(data, 8))
            /\ results' = [o \in loop_offsets(data, as_usize(read_u32(data, 8))) |-> None]
            /\ pc' = "loop"
            /\ panic' = ""
       ELSE /\ pc' = "panic"
            /\ panic' = "parse_adsb: header slice out of range"
            /\ UNCHANGED <<hdr, off, results>>
    /\ UNCHANGED <<data, input, aircraft, order>>

\* the end of one iteration: the panic unwinds, or the Aircraft is pushed
push(r) ==
    IF r.panic # ""
    THEN /\ pc' = "panic"
         /\ panic' = r.panic
         /\ UNCHANGED <<data, off, aircraft>>
    ELSE /\ aircraft' = Append(aircraft, r.aircraft)
         /\ data' = splice(data, off, r.input)
         /\ off' = off + Stride
         /\ UNCHANGED <<pc, panic>>

\* lines 397-405: one iteration of the record loop
DecodeRecord ==
    /\ pc = "loop"
    /\ off < Len(data)
    /\ IF ~SliceOk(data, off, off + Stride)
       THEN /\ pc' = "panic"
            /\ panic' = "parse_adsb: record slice out of range"
            /\ UNCHANGED <<data, off, aircraft>>
       ELSE push(build_aircraft(Slice(data, off, off + Stride), Stride, ModeFlag))
    /\ UNCHANGED <<input, hdr, results, order>>

\* lines 407-422: the BinCraft value is assembled and its length printed
Assemble ==
    /\ pc = "loop"
    /\ off >= Len(data)
    /\ pc' = "done"
    /\ UNCHANGED <<data, input, panic, hdr, off, aircraft, results, order>>

\* a worker's result is kept under the offset of its record
collect(o, r) ==
    /\ results' = [results EXCEPT ![o] = Some([panic |-> r.panic, aircraft |-> r.aircraft])]
    /\ data' = splice(data, o, r.input)

\* an independent worker decodes the record at offset o with the call of
\* lines 398-404
WorkerDecode(o) ==
    /\ pc \in {"loop", "done"}
    /\ o \in DOMAIN results
    /\ results[o] = None
    /\ IF ~SliceOk(data, o, o + Stride)
       THEN collect(o, failed(Slice(data, o, Len(data)), "parse_adsb: record slice out of range"))
       ELSE collect(o, build_aircraft(Slice(data, o, o + Stride), Stride, ModeFlag))
    /\ order' = Append(order, o)
    /\ UNCHANGED <<input, pc, panic, hdr, off, aircraft>>

-----------------------------------------------------------------------------
(* The decompressed buffers the decoder is run on                           *)

\* most records per buffer
MaxRecords == 2

\* byte j of the little-endian two's complement encoding of v
LE(v, j) == (v \div Pow2(8 * j)) % 256

\* byte o of a header with the given fields, as parse_adsb reads them
HeaderByte(h, o) ==
    IF o < 4 THEN LE(h.low_ms, o)
    ELSE IF o < 8 THEN LE(h.high, o - 4)
    ELSE IF o < 12 THEN LE(h.stride, o - 8)
    ELSE IF o < 16 THEN LE(3, o - 12)
    ELSE IF o < 20 THEN LE(h.globe_index, o - 16)
    ELSE IF o < 22 THEN LE(65536 - 90, o - 20)
    ELSE IF o < 24 THEN LE(65536 - 180, o - 22)
    ELSE IF o < 26 THEN LE(90, o - 24)
    ELSE IF o < 28 THEN LE(180, o - 26)
    ELSE IF o < 32 THEN LE(70000, o - 28)
    ELSE IF o >= 40 /\ o < 44 THEN LE(h.ver40, o - 40)
    ELSE IF o >= 64 /\ o < 68 THEN LE(48200000, o - 64)
    ELSE IF o >= 68 /\ o < 72 THEN LE(0 - 16370000, o - 68)
    ELSE IF o >= 72 /\ o < 76 THEN LE(h.ver72, o - 72)
    ELSE 0

\* byte o of a record with the given fields, as build_aircraft reads them;
\* the bytes no field of p sets are filled from p.seed
RecByte(p, o) ==
    IF o >= 12 /\ o < 16 THEN LE(p.lat, o - 12)
    ELSE IF o >= 32 /\ o < 34 THEN LE(p.sq, o - 32)
    ELSE IF o >= 62 /\ o < 64 THEN LE(p.l31, o - 62)
    ELSE IF o = 66 THEN p.b66
    ELSE IF o = 68 THEN p.b68
    ELSE IF o = 73 THEN p.v73
    ELSE IF o = 74 THEN p.v74
    ELSE IF o = 75 THEN p.v75
    ELSE IF o = 76 THEN p.v76
    ELSE IF o = 77 THEN p.v77
    ELSE IF o = 106 THEN p.b106
    ELSE (o * 37 + p.seed) % 256

\* a buffer of n bytes: the header region, then the records, then filler
MkBuffer(h, recs, n) ==
    [i \in 1..n |->
        LET o == i - 1
        IN IF o < Max(h.stride, 44) THEN HeaderByte(h, o)
           ELSE IF h.stride > 0 /\ (o \div h.stride) <= Len(recs)
           THEN RecByte(recs[o \div h.stride], o % h.stride)
           ELSE (o * 5) % 256]

BaseHeader ==
    [low_ms |-> 500, high |-> 1, stride |-> 108, globe_index |-> 1,
     ver40 |-> 20220916, ver72 |-> 20220916]

BaseRec ==
    [seed |-> 11, lat |-> 48123456, sq |-> 4146, l31 |-> 1234, b66 |-> 21,
     b68 |-> 33, v73 |-> 255, v74 |-> 255, v75 |-> 255, v76 |-> 255,
     v77 |-> 255, b106 |-> 0]

Bytes == 0..255

\* records over every squawk leading digit, the squawk bit set and clear
RecsSquawk ==
    {[BaseRec EXCEPT !.sq = q, !.v76 = v] :
        q \in {n * 4096 + 291 : n \in 0..15} \cup {0, 4146, 40959, 40960, 65535},
        v \in {255, 251}}

\* records with one validity byte over every value, the other four all set
\* or all clear
RecsValidity ==
    {[BaseRec EXCEPT !.v73 = IF j = 73 THEN v ELSE w,
                     !.v74 = IF j = 74 THEN v ELSE w,
                     !.v75 = IF j = 75 THEN v ELSE w,
                     !.v76 = IF j = 76 THEN v ELSE w,
                     !.v77 = IF j = 77 THEN v ELSE w] :
        j \in 73..77, v \in Bytes, w \in {0, 255}}

\* records around the NoGPS sentinel
RecsSentinel ==
    {[BaseRec EXCEPT !.v73 = v, !.v75 = w, !.b106 = g, !.lat = l] :
        v \in {0, 1, 6, 16, 64, 80, 175, 191, 239, 255},
        w \in {0, 16, 239, 255},
        g \in {0, 1, 2, 255},
        l \in {2147483647, 2147483646, 0 - 1, (0 - 2147483647) - 1}}

\* records over every airground byte
RecsGround ==
    {[BaseRec EXCEPT !.b68 = b, !.v73 = v] : b \in Bytes, v \in {239, 255}}

\* records over every raw nav-mode byte
RecsNav ==
    {[BaseRec EXCEPT !.b66 = b, !.v77 = v] : b \in Bytes, v \in {4, 251}}

\* records over different filler bytes
RecsSeed == {[BaseRec EXCEPT !.seed = s] : s \in 0..24}

\* the records of the buffers with several records
RecsSmall ==
    {BaseRec,
     [BaseRec EXCEPT !.v73 = 0, !.v75 = 0, !.b106 = 1, !.lat = 2147483647, !.seed = 3],
     [BaseRec EXCEPT !.v73 = 0, !.v74 = 0, !.v75 = 0, !.v76 = 0, !.v77 = 0, !.seed = 5],
     [BaseRec EXCEPT !.sq = 41251, !.seed = 7]}

RECURSIVE SeqsOf(_, _)
SeqsOf(S, n) ==
    IF n = 0 THEN {<<>>}
    ELSE {Append(q, x) : q \in SeqsOf(S, n - 1), x \in S}

\* a negative stride stands for the u32 with the same bit pattern
Strides == {0 - 4, 0, 4, 36, 40, 44, 88, 104, 106, 107, 108, 110, 112}

\* buffers of every layout: stride, number of records, trailing bytes, and
\* buffers cut short
InputsLayout ==
    UNION {
      {[h |-> [BaseHeader EXCEPT !.stride = st], recs |-> [i \in 1..k |-> BaseRec], n |-> n] :
          n \in {0, 10, 43, 44, 75, 76} \cup
                {st * (k + 1) + r : r \in {0, 10, 32, 50}} \cup {31 + st, 32 + st}} :
      st \in Strides, k \in 0..MaxRecords}

\* buffers over the fields that select the message-rate mode
InputsMode ==
    {[h |-> [BaseHeader EXCEPT !.globe_index = g, !.ver40 = a, !.ver72 = b],
      recs |-> <<[BaseRec EXCEPT !.l31 = m]>>, n |-> 216] :
        g \in {0, 1, 0 - 1},
        a \in {0, 20220915, 20220916, 20220917, 0 - 1},
        b \in {0, 20220915, 20220916, 20220917},
        m \in {0, 9, 10, 1234, 65535}}

\* one-record buffers over the record families
InputsRecord ==
    {[h |-> BaseHeader, recs |-> <<p>>, n |-> 216] :
        p \in RecsSquawk \cup RecsValidity \cup RecsSentinel \cup RecsGround
              \cup RecsNav \cup RecsSeed}

\* buffers of 2..MaxRecords records
InputsMulti ==
    {[h |-> BaseHeader, recs |-> q, n |-> 108 * (Len(q) + 1)] :
        q \in UNION {SeqsOf(RecsSmall, k) : k \in 2..MaxRecords}}

Inputs == InputsLayout \cup InputsMode \cup InputsRecord \cup InputsMulti

-----------------------------------------------------------------------------

Init ==
    /\ \E x \in Inputs : data = MkBuffer(x.h, x.recs, x.n)
    /\ input = data
    /\ pc = "start"
    /\ panic = ""
    /\ hdr = None
    /\ off = 0
    /\ aircraft = <<>>
    /\ results = <<>>
    /\ order = <<>>

Next ==
    \/ ReadHeader
    \/ DecodeRecord
    \/ Assemble
    \/ \E o \in DOMAIN results : WorkerDecode(o)

Spec == Init /\ [][Next]_vars


-----------------------------------------------------------------------------
(* The raw input as the claims read it                                      *)

\* bit i of byte b
Bit(b, i) == (b \div Pow2(i)) % 2

HeaderDecoded == hdr # None

\* byte o of record i (the chunk at [stride * i, stride * (i + 1)) of the
\* buffer as it was handed to parse_adsb)
Raw(i, o) == input[Stride * i + o + 1]

RawU16(i, lane) == Raw(i, 2 * lane) + 256 * Raw(i, 2 * lane + 1)

RawS16(i, lane) ==
    IF RawU16(i, lane) >= 32768 THEN RawU16(i, lane) - 65536 ELSE RawU16(i, lane)

RawS32(i, lane) == RawU16(i, 2 * lane) + 65536 * RawS16(i, 2 * lane + 1)

RawChunk(i) == SubSeq(input, Stride * i + 1, Stride * (i + 1))

\* the Aircraft the run has produced so far, each with the index of its
\* record: those pushed by the loop and those returned to the workers
Decoded ==
    IF ~HeaderDecoded THEN {}
    ELSE {<<i, aircraft[i]>> : i \in 1..Len(aircraft)}
         \cup {<<o \div Stride, results[o][1].aircraft>> :
                 o \in {x \in DOMAIN results :
                          results[x] # None /\ results[x][1].panic = ""}}

\* the case of the NoGPS sentinel, on the raw record
SentinelCase(i) == Bit(Raw(i, 106), 0) = 1 /\ RawS32(i, 3) = 2147483647

\* a field that is present exactly when its bit is set, with the given value
Owned(field, byte, bit, value) ==
    field = IF Bit(byte, bit) = 1 THEN <<value>> ELSE <<>>

\* a 16-bit lane divided by a constant
Scaled(n, d) == [num |-> [sig |-> n, exp |-> 0], den |-> d]

NavNames == <<"autopilot", "vnav", "alt_hold", "approach", "lnav", "tcas">>

\* the names of the set bits 0-5 of b, in the order of NavNames
NavExpected(b) ==
    LET F[j \in 0..6] ==
          IF j = 0 THEN <<>>
          ELSE IF Bit(b, j - 1) = 1 THEN Append(F[j - 1], NavNames[j]) ELSE F[j - 1]
    IN F[6]

\* the stride field of the buffer, when the buffer holds one
StrideField == read_u32(input, 8)

\* the run has ended
Ended == pc \in {"done", "panic"}


-----------------------------------------------------------------------------
(* C1: a buffer of a valid header region (stride a positive multiple of 4,  *)
(* large enough for a record, header decoded), k >= 0 full records that     *)
(* each decode, and 0 < r < stride trailing bytes is decoded without        *)
(* failure into exactly k Aircraft, in input order; the trailing bytes are  *)
(* dropped.                                                                 *)

TrailingLayout ==
    /\ HeaderDecoded
    /\ Stride % 4 = 0
    /\ Stride >= 107
    /\ Len(input) % Stride # 0
    /\ \A i \in 1..((Len(input) \div Stride) - 1) :
          build_aircraft(RawChunk(i), Stride, ModeFlag).panic = ""

C1_TrailingBytesDropped ==
    TrailingLayout =>
        /\ pc # "panic"
        /\ pc = "done" =>
              /\ Len(aircraft) = (Len(input) \div Stride) - 1
              /\ \A i \in 1..Len(aircraft) :
                    aircraft[i] = build_aircraft(RawChunk(i), Stride, ModeFlag).aircraft

(* C2: header decoding ends in a FormatError value, with no Aircraft        *)
(* decoded, when the buffer is shorter than 44 or than 32 + stride bytes,   *)
(* or the stride field is zero or not a multiple of 4.                      *)

HeaderInvalid ==
    \/ Len(input) < 44
    \/ u32_huge(StrideField)
    \/ Len(input) < 32 + as_usize(StrideField)
    \/ as_usize(StrideField) = 0
    \/ as_usize(StrideField) % 4 # 0

C2_HeaderFormatError ==
    HeaderInvalid =>
        /\ pc \in {"start", "FormatError"}
        /\ aircraft = <<>>

(* C3: a buffer of whole records whose stride is a non-zero multiple of 4   *)
(* below 107 ends in a FormatError before any record is indexed, never in   *)
(* an out-of-range access of build_aircraft.                                *)

StrideTooSmall ==
    /\ HeaderDecoded
    /\ Stride # 0
    /\ Stride % 4 = 0
    /\ Stride < 107
    /\ Len(input) % Stride = 0

C3_StrideCoversOffsets ==
    StrideTooSmall =>
        /\ panic # "build_aircraft: index out of range"
        /\ \A o \in DOMAIN results :
              results[o] # None => results[o][1].panic # "build_aircraft: index out of range"
        /\ Ended => pc = "FormatError"

(* C4: for every value of 16-bit lane 16 a record of stride >= 107 bytes    *)
(* decodes without failure and its squawk is the 4-character hex rendering: *)
(* it is when the first character is 0-9, with the first character          *)
(* re-read as hex and spliced back when it is a-f ("a" and "123" give       *)
(* "a123").                                                                 *)

C4_SquawkRepair ==
    (HeaderDecoded /\ Stride >= 107 /\ Len(input) % Stride = 0) =>
        /\ panic # "build_aircraft: unwrap on None"
        /\ \A x \in Decoded :
              Bit(Raw(x[1], 76), 2) = 1 =>
                  /\ x[2].squawk = <<HexFmt(RawU16(x[1], 16), 4, HexLower)>>
                  /\ Len(x[2].squawk[1]) = 4

(* C5 as claimed: when nogps (bit 0 of byte 106) is set and lane 3 is       *)
(* 2147483647, lat, lon, seen_pos and nic_baro are present whatever the     *)
(* record's validity flags.                                                 *)

C5_SentinelForcesNicBaro ==
    \A x \in Decoded :
        SentinelCase(x[1]) =>
            /\ x[2].lat # None
            /\ x[2].lon # None
            /\ x[2].seen_pos # None
            /\ x[2].nic_baro # None

(* C5 as amended: in that case bits 4 and 6 of byte 73 are forced on, so    *)
(* lat, lon, seen_pos and alt_baro are present with their decoded values;   *)
(* nic_baro stays owned by byte 75 bit 4, and the other bits of byte 73 are *)
(* as written; in any other case bits 4 and 6 are as the producer wrote     *)
(* them.                                                                    *)

C5_SentinelForcesPositionAndAltBaro ==
    \A x \in Decoded :
        LET i == x[1]
            a == x[2]
        IN /\ SentinelCase(i) =>
                /\ a.lat = <<f32_div(RawS32(i, 3), 1000000)>>
                /\ a.lon = <<f32_div(RawS32(i, 2), 1000000)>>
                /\ a.seen_pos = <<Scaled(RawU16(i, 2), 10)>>
                /\ a.alt_baro = <<25 * RawS16(i, 10)>>
           /\ ~SentinelCase(i) =>
                /\ (a.lat # None) = (Bit(Raw(i, 73), 6) = 1)
                /\ (a.lon # None) = (Bit(Raw(i, 73), 6) = 1)
                /\ (a.seen_pos # None) = (Bit(Raw(i, 73), 6) = 1)
                /\ (a.alt_baro # None) = (Bit(Raw(i, 73), 4) = 1)
           /\ (a.nic_baro # None) = (Bit(Raw(i, 75), 4) = 1)
           /\ (a.flight # None) = (Bit(Raw(i, 73), 3) = 1)
           /\ (a.alt_geom # None) = (Bit(Raw(i, 73), 5) = 1)
           /\ (a.gs # None) = (Bit(Raw(i, 73), 7) = 1)

C5_Witness ==
    \E x \in Decoded :
        /\ SentinelCase(x[1])
        /\ Bit(Raw(x[1], 73), 4) = 0
        /\ Bit(Raw(x[1], 73), 6) = 0
        /\ Bit(Raw(x[1], 75), 4) = 0
        /\ x[2].lat # None
        /\ x[2].alt_baro # None
        /\ x[2].nic_baro = None


(* C6: for every decoded record where the NoGPS sentinel does not fire,     *)
(* each listed field is present exactly when its owning bit of bytes 73-77  *)
(* is set, and then holds the value decoded from the raw bytes whatever the *)
(* other validity bits; nav_modes is the list of the set bits 0-5 of byte   *)
(* 66, in the fixed order, when byte 77 bit 2 is set and empty otherwise.   *)

C6_ValidityMasking ==
    \A x \in Decoded :
        LET i == x[1]
            a == x[2]
            b73 == Raw(i, 73)
            b74 == Raw(i, 74)
            b75 == Raw(i, 75)
            b76 == Raw(i, 76)
            b77 == Raw(i, 77)
        IN ~SentinelCase(i) =>
           /\ Owned(a.flight, b73, 3,
                    trim_end_matches0(from_utf8_lossy(SubSeq(RawChunk(i), 79, 86))))
           /\ Owned(a.alt_baro, b73, 4, 25 * RawS16(i, 10))
           /\ Owned(a.alt_geom, b73, 5, 25 * RawS16(i, 11))
           /\ Owned(a.lat, b73, 6, f32_div(RawS32(i, 3), 1000000))
           /\ Owned(a.lon, b73, 6, f32_div(RawS32(i, 2), 1000000))
           /\ Owned(a.seen_pos, b73, 6, Scaled(RawU16(i, 2), 10))
           /\ Owned(a.gs, b73, 7, Scaled(RawS16(i, 17), 10))
           /\ Owned(a.ias, b74, 0, RawU16(i, 29))
           /\ Owned(a.tas, b74, 1, RawU16(i, 28))
           /\ Owned(a.mach, b74, 2, Scaled(RawS16(i, 18), 1000))
           /\ Owned(a.track, b74, 3, Scaled(RawS16(i, 20), 90))
           /\ Owned(a.track_rate, b74, 4, Scaled(RawS16(i, 21), 100))
           /\ Owned(a.roll, b74, 5, Scaled(RawS16(i, 19), 100))
           /\ Owned(a.mag_heading, b74, 6, Scaled(RawS16(i, 22), 90))
           /\ Owned(a.true_heading, b74, 7, Scaled(RawS16(i, 23), 90))
           /\ Owned(a.baro_rate, b75, 0, 8 * RawS16(i, 8))
           /\ Owned(a.geom_rate, b75, 1, 8 * RawS16(i, 9))
           /\ Owned(a.nic_a, b75, 2, Bit(Raw(i, 72), 6))
           /\ Owned(a.nic_c, b75, 3, Bit(Raw(i, 72), 7))
           /\ Owned(a.nac_p, b75, 5, Raw(i, 71) % 16)
           /\ Owned(a.nac_v, b75, 6, Raw(i, 71) \div 16)
           /\ Owned(a.sil, b75, 7, Raw(i, 72) % 4)
           /\ Owned(a.gva, b76, 0, (Raw(i, 72) \div 4) % 4)
           /\ Owned(a.sda, b76, 1, (Raw(i, 72) \div 16) % 4)
           /\ Owned(a.squawk, b76, 2, HexFmt(RawU16(i, 16), 4, HexLower))
           /\ Owned(a.emergency, b76, 3, Raw(i, 67) % 16)
           /\ Owned(a.nav_qnh, b76, 5, Scaled(RawS16(i, 14), 10))
           /\ Owned(a.nav_altitude_mcp, b76, 6, 4 * RawU16(i, 12))
           /\ Owned(a.nav_altitude_fms, b76, 7, 4 * RawU16(i, 13))
           /\ Owned(a.nav_altitude_src, b77, 0, Raw(i, 68) \div 16)
           /\ Owned(a.nav_heading, b77, 1, Scaled(RawS16(i, 15), 90))
           /\ a.nav_modes = IF Bit(b77, 2) = 1 THEN NavExpected(Raw(i, 66)) ELSE <<>>
           /\ Owned(a.wd, b77, 4, RawS16(i, 24))
           /\ Owned(a.ws, b77, 4, RawS16(i, 25))
           /\ Owned(a.oat, b77, 5, RawS16(i, 26))
           /\ Owned(a.tat, b77, 5, RawS16(i, 27))

C6_Witness ==
    \E x \in Decoded :
        /\ ~SentinelCase(x[1])
        /\ Raw(x[1], 74) = 32
        /\ Raw(x[1], 73) = 0
        /\ x[2].roll = <<Scaled(RawS16(x[1], 19), 100)>>
        /\ x[2].track_rate = None
        /\ x[2].lat = None

(* C7 as claimed: bits 0, 1 and 2 of byte 73 are validity bits: nic_baro,   *)
(* alert1 and spi are absent when their bit of byte 73 is clear, and        *)
(* present only when both that bit and byte 75 bit 4, byte 77 bit 3 and     *)
(* byte 76 bit 4 respectively are set.                                      *)

C7_Byte73LowBitsAreValidity ==
    \A x \in Decoded :
        /\ (x[2].nic_baro # None) =
              (Bit(Raw(x[1], 73), 0) = 1 /\ Bit(Raw(x[1], 75), 4) = 1)
        /\ (x[2].alert1 # None) =
              (Bit(Raw(x[1], 73), 1) = 1 /\ Bit(Raw(x[1], 77), 3) = 1)
        /\ (x[2].spi # None) =
              (Bit(Raw(x[1], 73), 2) = 1 /\ Bit(Raw(x[1], 76), 4) = 1)

(* C7 as amended: bits 0, 1 and 2 of byte 73 are the values of nic_baro,    *)
(* alert1 and spi (byte 73 masked with 1, 2 and 4, not shifted); each is    *)
(* present exactly when its one validity bit is set: byte 75 bit 4, byte 77 *)
(* bit 3 and byte 76 bit 4; a clear bit of byte 73 gives the value 0.       *)

C7_Byte73LowBitsAreValues ==
    \A x \in Decoded :
        /\ Owned(x[2].nic_baro, Raw(x[1], 75), 4, Bit(Raw(x[1], 73), 0))
        /\ Owned(x[2].alert1, Raw(x[1], 77), 3, 2 * Bit(Raw(x[1], 73), 1))
        /\ Owned(x[2].spi, Raw(x[1], 76), 4, 4 * Bit(Raw(x[1], 73), 2))

C7_Witness ==
    \E x \in Decoded :
        /\ Bit(Raw(x[1], 73), 0) = 0
        /\ Bit(Raw(x[1], 73), 1) = 1
        /\ Bit(Raw(x[1], 73), 2) = 0
        /\ x[2].nic_baro = <<0>>
        /\ x[2].alert1 = <<2>>
        /\ x[2].spi = <<0>>

\* lane 31 of every decoded record is read in the mode given
Lane31ReadAs(rate) ==
    \A x \in Decoded :
        IF rate
        THEN x[2].message_rate = RawU16(x[1], 31) \div 10 /\ x[2].messages = 0
        ELSE x[2].messages = RawU16(x[1], 31) /\ x[2].message_rate = 0

(* C8 as claimed: lane 31 of every record is message_rate = u16[31]/10      *)
(* (messages at its default) exactly when globe_index != 0 and the u32 at   *)
(* byte offset 72 of the buffer is >= 20220916, and messages otherwise.     *)

C9_GroundLabel ==
    \A x \in Decoded :
        x[2].alt_baro_label = IF Raw(x[1], 68) % 16 = 1 THEN <<"ground">> ELSE <<>>

C9_Witness ==
    \E x \in Decoded :
        /\ x[2].alt_baro_label = <<"ground">>
        /\ x[2].alt_baro = None
        /\ Bit(Raw(x[1], 73), 4) = 0

(* C10: decoding leaves the buffer unchanged, also when the sentinel sets   *)
(* bits of byte 73; the Aircraft of a record depends on its own chunk only  *)
(* (records with equal chunks give equal Aircraft); workers decoding the    *)
(* records in any order and interleaving get, record by record, the         *)
(* Aircraft the sequential loop pushes, and a second decode of a record     *)
(* gives the same Aircraft as the first.                                    *)

====
